---- MODULE Spec2Model ----
(***************************************************************************)
(* Threat scoring and aggregation of the URL penetration tester            *)
(* (src/clike3.py): calculate_threat_score, get_threat_category and        *)
(* calculate_overall_threat_score over the process-wide THREAT_SCORES and  *)
(* THREAT_DETAILS dictionaries.                                            *)
(***************************************************************************)
EXTENDS Integers, Sequences, FiniteSets, TLC

VARIABLES
    pc,             \* position of the call in progress
    check_name,     \* calculate_threat_score: argument check_name
    data,           \* calculate_threat_score: argument data
    score,          \* calculate_threat_score: outcome (value returned or exception)
    cat_score,      \* get_threat_category: argument score
    category,       \* get_threat_category: value returned
    url,            \* calculate_overall_threat_score: argument url
    THREAT_SCORES,  \* global dict url -> {check: score}, insertion ordered
    THREAT_DETAILS, \* global dict url -> {check: {"score", "reason"}}
    threat_score,   \* results["threat_score"] built from the aggregator's return
    args,           \* the parsed command line: selected options, --all, --export-results,
                    \* --webhook, and the mode (--batch, --interactive or -u)
    network,        \* what the network answers during the process: sites up, page served
    urls,           \* process_batch: the lines of the batch file
    batch_i,        \* process_batch: i + 1, the number of the entry being processed
    block,          \* the `if args.X or args.all:` block the scan has reached (from 1)
    results,        \* the scan's local dict results, threat_score apart
    calls,          \* the check functions the scan has invoked, in order
    url_results,    \* what each processed entry returned, in order
    all_results,    \* process_batch: all_results, keyed by the batch line
    sent,           \* the payloads handed to send_to_webhook, in order
    page            \* the page served: how many findings it holds, its CSP headers

\* the variables of the orchestrator, left alone by the single-call specifications
scan == <<args, network, urls, batch_i, block, results, calls, url_results, all_results,
          sent, page>>

vars == <<pc, check_name, data, score, cat_score, category, url,
          THREAT_SCORES, THREAT_DETAILS, threat_score, scan>>

(***************************************************************************)
(* Bounds of the explored inputs.                                          *)
(***************************************************************************)
MaxCount == 21      \* largest count / list length in a payload
BelowZero == 1      \* how far below 0 the integer counts in a payload go
Beyond == 3         \* how far past 0..100 get_threat_category is probed
MaxContrib == 3     \* most contributions held by one session

(***************************************************************************)
(* Python values that can sit in a payload field.  Every value is a record *)
(* [t, v]: bool (v = 1 for True), int, None, str and list (v = length).    *)
(* Absent marks a key the dict does not have.                              *)
(***************************************************************************)
PyBool(b) == [t |-> "bool", v |-> IF b THEN 1 ELSE 0]
PyInt(n) == [t |-> "int", v |-> n]
PyNone == [t |-> "none", v |-> 0]
PyStr(n) == [t |-> "str", v |-> n]
PyList(n) == [t |-> "list", v |-> n]
Absent == [t |-> "absent", v |-> 0]

\* bool(x): the truth value Python gives x in `if x` / `not x`
Truthy(x) ==
    CASE x.t = "bool" -> x.v = 1
      [] x.t = "int" -> x.v # 0
      [] x.t = "none" -> FALSE
      [] OTHER -> x.v > 0

\* data.get(key, default)
Get(d, key, default) ==
    IF key \in DOMAIN d.f /\ d.f[key].t # "absent" THEN d.f[key] ELSE default

\* x * n followed by score += ... succeeds only for int and bool operands:
\* None * n, and int + str / int + list raise TypeError
IsNumber(x) == x.t \in {"int", "bool"}

\* len(x) is defined for str and list and raises TypeError otherwise
IsSized(x) == x.t \in {"str", "list"}

\* outcome of a call: a returned integer or an escaping exception
Returned(n) == [raised |-> FALSE, val |-> n]
Raised == [raised |-> TRUE, val |-> 0]

Min(a, b) == IF a < b THEN a ELSE b

\* the keys each branch of calculate_threat_score reads
SecurityFields == {"is_https", "hsts", "content_security_policy",
                   "x_content_type_options", "x_frame_options", "x_xss_protection"}
CookieFields == {"cookies_without_secure", "cookies_without_httponly",
                 "cookies_without_samesite"}
CspFields == {"has_csp", "has_unsafe_inline", "has_unsafe_eval"}
SslFields == {"valid", "expired", "self_signed", "weak_signature"}

ScoredKinds == {"security", "mixed_content", "cookie_sec", "clickjacking", "csp",
                "iframe_security", "ssl", "vulns", "passwords", "deserialize",
                "leaks", "sec_headers"}

Pts(cond, n) == IF cond THEN n ELSE 0

(***************************************************************************)
(* The branches of calculate_threat_score; each gives the value of `score` *)
(* at the end of the branch (before the cap) or Raised.                    *)
(***************************************************************************)
SecurityScore_HstsFive(d) ==
    IF ~d.isdict THEN Returned(0)
    ELSE Returned(Pts(~Truthy(Get(d, "is_https", PyBool(FALSE))), 30)
                + Pts(~Truthy(Get(d, "hsts", PyBool(FALSE))), 5)
                + Pts(~Truthy(Get(d, "content_security_policy", PyBool(FALSE))), 10)
                + Pts(~Truthy(Get(d, "x_content_type_options", PyBool(FALSE))), 5)
                + Pts(~Truthy(Get(d, "x_frame_options", PyBool(FALSE))), 5)
                + Pts(~Truthy(Get(d, "x_xss_protection", PyBool(FALSE))), 5))

SecurityScore(d) ==
    IF ~d.isdict THEN Returned(0)
    ELSE Returned(Pts(~Truthy(Get(d, "is_https", PyBool(FALSE))), 30)
                + Pts(~Truthy(Get(d, "hsts", PyBool(FALSE))), 10)
                + Pts(~Truthy(Get(d, "content_security_policy", PyBool(FALSE))), 10)
                + Pts(~Truthy(Get(d, "x_content_type_options", PyBool(FALSE))), 5)
                + Pts(~Truthy(Get(d, "x_frame_options", PyBool(FALSE))), 5)
                + Pts(~Truthy(Get(d, "x_xss_protection", PyBool(FALSE))), 5))

MixedContentScore(d) ==
    Returned(Pts(d.isdict /\ Truthy(Get(d, "has_mixed_content", PyBool(FALSE))), 40))

CookieScore_SwappedUnits(d) ==
    IF ~d.isdict THEN Returned(0)
    ELSE LET cookies_without_secure == Get(d, "cookies_without_secure", PyInt(0))
             cookies_without_httponly == Get(d, "cookies_without_httponly", PyInt(0))
             cookies_without_samesite == Get(d, "cookies_without_samesite", PyInt(0))
         IN  IF IsNumber(cookies_without_secure) /\ IsNumber(cookies_without_httponly)
                /\ IsNumber(cookies_without_samesite)
             THEN Returned(cookies_without_secure.v * 10
                           + cookies_without_httponly.v * 5
                           + cookies_without_samesite.v * 8)
             ELSE Raised

CookieScore(d) ==
    IF ~d.isdict THEN Returned(0)
    ELSE LET cookies_without_secure == Get(d, "cookies_without_secure", PyInt(0))
             cookies_without_httponly == Get(d, "cookies_without_httponly", PyInt(0))
             cookies_without_samesite == Get(d, "cookies_without_samesite", PyInt(0))
         IN  IF IsNumber(cookies_without_secure) /\ IsNumber(cookies_without_httponly)
                /\ IsNumber(cookies_without_samesite)
             THEN Returned(cookies_without_secure.v * 10
                           + cookies_without_httponly.v * 8
                           + cookies_without_samesite.v * 5)
             ELSE Raised

ClickjackingScore(d) ==
    Returned(Pts(d.isdict /\ ~Truthy(Get(d, "protected", PyBool(FALSE))), 25))

CspScore(d) ==
    IF ~d.isdict THEN Returned(0)
    ELSE Returned(Pts(~Truthy(Get(d, "has_csp", PyBool(FALSE))), 20)
                + Pts(Truthy(Get(d, "has_unsafe_inline", PyBool(FALSE))), 10)
                + Pts(Truthy(Get(d, "has_unsafe_eval", PyBool(FALSE))), 10))

\* score += len(data.get(key, [])) * unit
LenScore(d, key, unit) ==
    IF ~d.isdict THEN Returned(0)
    ELSE LET items == Get(d, key, PyList(0))
         IN  IF IsSized(items) THEN Returned(items.v * unit) ELSE Raised

SslScore(d) ==
    IF ~d.isdict THEN Returned(0)
    ELSE Returned(Pts(~Truthy(Get(d, "valid", PyBool(TRUE))), 40)
                + Pts(Truthy(Get(d, "expired", PyBool(FALSE))), 40)
                + Pts(Truthy(Get(d, "self_signed", PyBool(FALSE))), 20)
                + Pts(Truthy(Get(d, "weak_signature", PyBool(FALSE))), 15))

PasswordsScore(d) ==
    IF ~d.isdict THEN Returned(0)
    ELSE LET insecure_forms == Get(d, "insecure_password_forms", PyInt(0))
         IN  IF IsNumber(insecure_forms) THEN Returned(insecure_forms.v * 30) ELSE Raised

DeserializeScore(d) ==
    Returned(Pts(d.isdict /\ Truthy(Get(d, "potentially_vulnerable", PyBool(FALSE))), 35))

\* the if / elif chain on check_name; no branch matches an unlisted name,
\* which leaves score = 0
BranchScore_FallThrough(name, d) ==
    CASE name = "security" -> SecurityScore(d)
      [] name = "mixed_content" -> MixedContentScore(d)
      [] name = "cookie_sec" -> CookieScore(d)
      [] name = "clickjacking" -> ClickjackingScore(d)
      [] name = "csp" -> CspScore(d)
      [] name = "iframe_security" -> LenScore(d, "insecure_iframes", 15)
      [] name = "ssl" -> SslScore(d)
      [] name = "vulns" -> LenScore(d, "vulnerabilities", 20)
      [] name = "passwords" -> PasswordsScore(d)
      [] name = "deserialize" -> DeserializeScore(d)
      [] name = "leaks" -> LenScore(d, "sensitive_info", 15)
      [] OTHER -> LenScore(d, "missing_headers", 5)

BranchScore(name, d) ==
    CASE name = "security" -> SecurityScore(d)
      [] name = "mixed_content" -> MixedContentScore(d)
      [] name = "cookie_sec" -> CookieScore(d)
      [] name = "clickjacking" -> ClickjackingScore(d)
      [] name = "csp" -> CspScore(d)
      [] name = "iframe_security" -> LenScore(d, "insecure_iframes", 15)
      [] name = "ssl" -> SslScore(d)
      [] name = "vulns" -> LenScore(d, "vulnerabilities", 20)
      [] name = "passwords" -> PasswordsScore(d)
      [] name = "deserialize" -> DeserializeScore(d)
      [] name = "leaks" -> LenScore(d, "sensitive_info", 15)
      [] name = "sec_headers" -> LenScore(d, "missing_headers", 5)
      [] OTHER -> Returned(0)

\* return min(score, 100)
calculate_threat_score(name, d) ==
    LET r == BranchScore(name, d)
    IN  IF r.raised THEN Raised ELSE Returned(Min(r.val, 100))

(***************************************************************************)
(* get_threat_category: the label and the colour of a score.               *)
(***************************************************************************)
get_threat_category_InclusiveUpper(s) ==
    IF s <= 20 THEN <<"Low Risk", "GREEN">>
    ELSE IF s <= 40 THEN <<"Moderate Risk", "CYAN">>
    ELSE IF s <= 60 THEN <<"Medium Risk", "YELLOW">>
    ELSE IF s <= 80 THEN <<"High Risk", "YELLOW+BRIGHT">>
    ELSE <<"Critical Risk", "RED+BRIGHT">>

get_threat_category(s) ==
    IF s < 20 THEN <<"Low Risk", "GREEN">>
    ELSE IF s < 40 THEN <<"Moderate Risk", "CYAN">>
    ELSE IF s < 60 THEN <<"Medium Risk", "YELLOW">>
    ELSE IF s < 80 THEN <<"High Risk", "YELLOW+BRIGHT">>
    ELSE <<"Critical Risk", "RED+BRIGHT">>

(***************************************************************************)
(* Payloads handed to the scorer.                                          *)
(***************************************************************************)
FlagVals == {PyBool(TRUE), PyBool(FALSE), Absent, PyNone, PyStr(1)}
CountVals == {PyInt(n) : n \in (0 - BelowZero)..MaxCount}
                 \cup {Absent, PyNone, PyStr(1), PyList(0), PyBool(TRUE)}
SizedVals == {PyList(n) : n \in 0..MaxCount}
                 \cup {Absent, PyNone, PyStr(2), PyInt(1)}

Dict(f) == [isdict |-> TRUE, f |-> f]
\* a payload that is no dict at all (None, a list, a string)
NotADict(fields) == [isdict |-> FALSE, f |-> [k \in fields |-> Absent]]

DictsOver(fields, vals) == {Dict(f) : f \in [fields -> vals]} \cup {NotADict(fields)}

Payloads(name) ==
    CASE name = "security" -> DictsOver(SecurityFields, FlagVals)
      [] name = "mixed_content" -> DictsOver({"has_mixed_content"}, FlagVals)
      [] name = "cookie_sec" -> DictsOver(CookieFields, CountVals)
      [] name = "clickjacking" -> DictsOver({"protected"}, FlagVals)
      [] name = "csp" -> DictsOver(CspFields, FlagVals)
      [] name = "iframe_security" -> DictsOver({"insecure_iframes"}, SizedVals)
      [] name = "ssl" -> DictsOver(SslFields, FlagVals)
      [] name = "vulns" -> DictsOver({"vulnerabilities"}, SizedVals)
      [] name = "passwords" -> DictsOver({"insecure_password_forms"}, CountVals)
      [] name = "deserialize" -> DictsOver({"potentially_vulnerable"}, FlagVals)
      [] name = "leaks" -> DictsOver({"sensitive_info"}, SizedVals)
      [] name = "sec_headers" -> DictsOver({"missing_headers"}, SizedVals)
      \* a name the scorer has no branch for is tried with the payloads of
      \* several scored kinds
      [] OTHER -> DictsOver({"missing_headers"}, SizedVals)
                      \cup DictsOver(CspFields, FlagVals)
                      \cup DictsOver({"insecure_password_forms"}, CountVals)

\* names without a branch in calculate_threat_score: "cors" is selectable in
\* the orchestrator (args.cors) but is never scored
UnscoredKinds == {"cors", "title"}

(***************************************************************************)
(* State shared by the specifications below.                               *)
(***************************************************************************)
Urls == {"http://a.test", "http://b.test", "a.test"}

NoOutcome == Returned(0)
NoCategory == <<"", "">>
NoSession == [present |-> FALSE, items |-> <<>>]
NoAssessment == [raised |-> FALSE, score |-> 0, category |-> "", details |-> <<>>]

ScorerIdle ==
    /\ check_name = ""
    /\ data = NotADict({})
    /\ score = NoOutcome

CategoryIdle ==
    /\ cat_score = 0
    /\ category = NoCategory

AggregatorIdle ==
    /\ url = ""
    /\ THREAT_SCORES = [u \in Urls |-> NoSession]
    /\ THREAT_DETAILS = [u \in Urls |-> NoSession]
    /\ threat_score = NoAssessment

\* the option names, in the order of their blocks in process_url_with_results
Checks == <<"security", "links", "cors", "ports", "ports_all", "ssl">>

CheckSet == {Checks[n] : n \in 1..Len(Checks)}

\* the key under which an option's block stores its result
ResultKey(option) ==
    CASE option = "security" -> "security_info"
      [] option = "links" -> "links"
      [] option = "cors" -> "cors_policy"
      [] option = "ports" -> "common_ports"
      [] option = "ports_all" -> "all_ports"
      [] option = "ssl" -> "ssl_info"

ResultKeys == {ResultKey(o) : o \in CheckSet}

\* a page with nothing to find and no CSP header
NoPage == [findings |-> 0, has_policy |-> FALSE, unsafe_inline |-> FALSE,
           unsafe_eval |-> FALSE, report_only |-> FALSE]

\* a key that is not in results
NoResult == NotADict({})

NoResults == [key \in ResultKeys |-> NoResult]

NoArgs == [flags |-> {}, all |-> FALSE, export_results |-> FALSE, webhook |-> FALSE,
           mode |-> "batch"]

NoNetwork == [up |-> {}, hardened |-> FALSE, cert |-> FALSE, bad_href |-> FALSE]

ScanIdle ==
    /\ args = NoArgs
    /\ network = NoNetwork
    /\ urls = <<>>
    /\ batch_i = 0
    /\ block = 0
    /\ results = NoResults
    /\ calls = <<>>
    /\ url_results = <<>>
    /\ all_results = <<>>
    /\ sent = <<>>
    /\ page = NoPage

(***************************************************************************)
(* SpecScorer: one call of calculate_threat_score on a drawn input.        *)
(***************************************************************************)
InitScorer ==
    /\ pc = "score_call"
    /\ check_name \in ScoredKinds \cup UnscoredKinds
    /\ data \in Payloads(check_name)
    /\ score = NoOutcome
    /\ CategoryIdle
    /\ AggregatorIdle
    /\ ScanIdle

Score ==
    /\ pc = "score_call"
    /\ score' = calculate_threat_score(check_name, data)
    /\ pc' = "score_done"
    /\ UNCHANGED <<check_name, data, cat_score, category, url,
                   THREAT_SCORES, THREAT_DETAILS, threat_score, scan>>

NextScorer == Score

SpecScorer == InitScorer /\ [][NextScorer]_vars

(***************************************************************************)
(* SpecCategory: one call of get_threat_category on a drawn score.         *)
(***************************************************************************)
InitCategory ==
    /\ pc = "category_call"
    /\ cat_score \in (0 - Beyond)..(100 + Beyond)
    /\ category = NoCategory
    /\ ScorerIdle
    /\ AggregatorIdle
    /\ ScanIdle

Categorize ==
    /\ pc = "category_call"
    /\ category' = get_threat_category(cat_score)
    /\ pc' = "category_done"
    /\ UNCHANGED <<check_name, data, score, cat_score, url,
                   THREAT_SCORES, THREAT_DETAILS, threat_score, scan>>

NextCategory == Categorize

SpecCategory == InitCategory /\ [][NextCategory]_vars

(***************************************************************************)
(* Double-precision arithmetic of the aggregator.  The weights are float   *)
(* literals, so total_score and total_weight are IEEE-754 doubles and      *)
(* every *, + and / rounds to 53 significant bits, ties to even.  A double *)
(* x that is 0 or >= 0.5 is held exactly as the integer x * 2^53, written  *)
(* as three limbs <<hi, mid, lo>> in base 2^24 (hi * 2^48 + mid * 2^24 +   *)
(* lo); every double the aggregator meets has that form.                   *)
(***************************************************************************)
Base == 16777216

Zero == <<0, 0, 0>>

\* carry propagation
Norm(hi, mid, lo) ==
    LET m == mid + (lo \div Base)
    IN  <<hi + (m \div Base), m % Base, lo % Base>>

BigAdd(x, y) == Norm(x[1] + y[1], x[2] + y[2], x[3] + y[3])
\* x - y for x >= y
BigSub(x, y) == Norm(x[1] - y[1], x[2] - y[2], x[3] - y[3])
\* x * n for an integer 0 <= n <= 127
BigMulSmall(x, n) == Norm(x[1] * n, x[2] * n, x[3] * n)
BigLeq(x, y) ==
    \/ x[1] < y[1]
    \/ x[1] = y[1] /\ x[2] < y[2]
    \/ x[1] = y[1] /\ x[2] = y[2] /\ x[3] <= y[3]

RECURSIVE BitLen(_)
BitLen(n) == IF n = 0 THEN 0 ELSE 1 + BitLen(n \div 2)

\* The double nearest to x + rem/den (0 <= rem < den), ties to even: the
\* rounding every float operation ends with.  x has 48 + BitLen(hi) bits, so
\* the last BitLen(hi) - 5 bits do not fit the 53-bit significand.
RoundToDouble(x, rem, den) ==
    LET sh == BitLen(x[1]) - 5
        unit == IF sh > 0 THEN 2 ^ sh ELSE 1
        cut == x[3] % unit
        \* twice the discarded part compared with one unit
        twice == IF 2 * cut # unit THEN 2 * cut
                 ELSE IF rem > 0 THEN unit + 1 ELSE unit
        low == IF sh > 0 THEN twice ELSE 2 * rem
        one == IF sh > 0 THEN unit ELSE den
        odd == (x[3] \div unit) % 2 = 1
        up == low > one \/ (low = one /\ odd)
    IN  IF up THEN Norm(x[1], x[2], x[3] - cut + unit)
        ELSE <<x[1], x[2], x[3] - cut>>

\* float + float
FAdd(x, y) == RoundToDouble(BigAdd(x, y), 0, 1)
\* int * float, for an int 0..127 (the int converts to a float exactly)
FMulInt(n, x) == RoundToDouble(BigMulSmall(x, n), 0, 1)

\* the double a literal d.d denotes, given in tenths (12 for 1.2):
\* tenths * 2^53 / 10, rounded
DoubleOfTenths(tenths) ==
    LET h == tenths * 32
        m == (h % 10) * Base
        l == (m % 10) * Base
    IN  RoundToDouble(<<h \div 10, m \div 10, l \div 10>>, l % 10, 10)

\* floor(x / 2^t) for 46 <= t
ShiftRight(x, t) == (x[1] * 4 + (x[2] \div 4194304)) \div (2 ^ (t - 46))

\* int(round(x / y)) for doubles 0 <= x, 0.5 <= y with x / y < 127.
\* k = floor of the exact quotient and x / y is the double nearest to it.
\* round() sends a double below k + 0.5 to k, above it to k + 1 and k + 0.5
\* itself to the even one of k and k + 1.  With e = floor(log2(k + 0.5)) the
\* doubles next to k + 0.5 are 2^(e-52) away (2^-54 below 0.5), so x / y is
\* k + 0.5 exactly when the exact quotient is within half that distance of
\* k + 0.5, that is |2 * (x - k * y) - y| <= y * 2^(e-52).
PyRoundDiv(x, y) ==
    LET est == (x[1] * 256 + (x[2] \div 65536)) \div (y[1] * 256 + (y[2] \div 65536))
        lowest == IF est > 0 THEN est - 1 ELSE 0
        k == CHOOSE q \in lowest..(est + 1) :
                 /\ BigLeq(BigMulSmall(y, q), x)
                 /\ ~BigLeq(BigMulSmall(y, q + 1), x)
        rest2 == BigMulSmall(BigSub(x, BigMulSmall(y, k)), 2)
        above == BigLeq(y, rest2)
        dist == IF above THEN BigSub(rest2, y) ELSE BigSub(y, rest2)
        e == BitLen(k) - 1
        reach == IF above \/ k > 0 THEN ShiftRight(y, 52 - e) ELSE ShiftRight(y, 54)
        half == dist[1] = 0 /\ dist[2] = 0 /\ dist[3] <= reach
    IN  IF half THEN (IF k % 2 = 0 THEN k ELSE k + 1)
        ELSE IF above THEN k + 1 ELSE k

(***************************************************************************)
(* calculate_overall_threat_score.  A dict is the sequence of its items in *)
(* insertion order, the order in which `for check, score in scores.items()`*)
(* visits them.                                                            *)
(***************************************************************************)
\* the weights table, in tenths
weights == [security |-> 12, ssl |-> 15, vulns |-> 15, csp |-> 12, clickjacking |-> 10,
            mixed_content |-> 12, passwords |-> 13, iframe_security |-> 8,
            cookie_sec |-> 10, deserialize |-> 10, leaks |-> 11, sec_headers |-> 9]

\* a table lookup that falls back on 0 for a kind it does not list
WeightOf_DefaultZero(check) ==
    IF check \in DOMAIN weights THEN DoubleOfTenths(weights[check]) ELSE Zero

\* weights.get(check, 1.0)
WeightOf(check) ==
    DoubleOfTenths(IF check \in DOMAIN weights THEN weights[check] ELSE 10)

\* the loop over scores.items(), from item i on
RECURSIVE WeightedSums(_, _, _, _)
WeightedSums(scores, i, total_score, total_weight) ==
    IF i > Len(scores) THEN [total_score |-> total_score, total_weight |-> total_weight]
    ELSE LET weight == WeightOf(scores[i].check)
         IN  WeightedSums(scores, i + 1,
                          FAdd(total_score, FMulInt(scores[i].score, weight)),
                          FAdd(total_weight, weight))

\* a `total_score -= score * weight` slip: the sums and the quotient change sign
overall_score_SignSlip(scores) ==
    LET t == WeightedSums(scores, 1, Zero, Zero)
    IN  0 - PyRoundDiv(t.total_score, t.total_weight)

\* a quotient one below the rounded one
overall_score_OneBelow(scores) ==
    LET t == WeightedSums(scores, 1, Zero, Zero)
    IN  PyRoundDiv(t.total_score, t.total_weight) - 1

\* a plain mean: the weighted sum divided by the number of contributions
overall_score_DivByCount(scores) ==
    LET t == WeightedSums(scores, 1, Zero, Zero)
    IN  PyRoundDiv(t.total_score, DoubleOfTenths(10 * Len(scores)))

\* overall_score = int(round(total_score / total_weight)) after the loop
overall_score(scores) ==
    LET t == WeightedSums(scores, 1, Zero, Zero)
    IN  PyRoundDiv(t.total_score, t.total_weight)

Overall(n, details) == [raised |-> FALSE, score |-> n, details |-> details]
OverallRaised == [raised |-> TRUE, score |-> 0, details |-> <<>>]

\* without the `url not in THREAT_SCORES` guard THREAT_SCORES[url] raises KeyError
calculate_overall_threat_score_NoUrlGuard(u, SCORES, DETAILS) ==
    IF ~SCORES[u].present THEN OverallRaised
    ELSE LET scores == SCORES[u].items
             details == DETAILS[u].items
         IN  IF scores = <<>> THEN Overall(0, <<>>)
             ELSE IF WeightedSums(scores, 1, Zero, Zero).total_weight = Zero
             THEN Overall(0, details)
             ELSE Overall(Min(overall_score(scores), 100), details)

\* the guards, in order: url not in THREAT_SCORES, not scores, total_weight == 0
calculate_overall_threat_score(u, SCORES, DETAILS) ==
    IF ~SCORES[u].present THEN Overall(0, <<>>)
    ELSE LET scores == SCORES[u].items
             details == DETAILS[u].items
         IN  IF scores = <<>> THEN Overall(0, <<>>)
             ELSE IF WeightedSums(scores, 1, Zero, Zero).total_weight = Zero
             THEN Overall(0, details)
             ELSE Overall(Min(overall_score(scores), 100), details)

(***************************************************************************)
(* SpecAggregator: one aggregation over a drawn session.                   *)
(***************************************************************************)
\* the kinds and scores sessions are drawn from
AggKinds == {"security", "ssl", "passwords", "leaks", "cors"}
AggScores == {0, 50, 60, 90, 100}

\* the "reason" the orchestrator stores with each score
Reason(check) ==
    CASE check = "security" -> "HTTPS and security header issues"
      [] check = "ssl" -> "SSL/TLS certificate issues"
      [] check = "csp" -> "Content Security Policy issues"
      [] check = "leaks" -> "Information leakage issues"
      [] check = "sec_headers" -> "Missing security headers"
      [] check = "vulns" -> "Vulnerability issues"
      [] check = "passwords" -> "Password form security issues"
      [] check = "iframe_security" -> "Iframe security issues"
      [] OTHER -> ""

Item(check, n) == [check |-> check, score |-> n]

\* the dicts with at most n keys
RECURSIVE SessionsUpTo(_)
SessionsUpTo(n) ==
    IF n = 0 THEN {<<>>}
    ELSE LET shorter == SessionsUpTo(n - 1)
         IN  shorter \cup
             {Append(s, Item(c, v)) :
                 s \in {t \in shorter : Len(t) = n - 1},
                 c \in AggKinds, v \in AggScores}

DistinctKeys(s) == \A i, j \in 1..Len(s) : s[i].check = s[j].check => i = j

\* the largest value calculate_threat_score returns: min(score, 100)
FullScore == 100

\* the kinds a lone contribution is drawn from: every weighted kind and one
\* that falls back on weights.get(check, 1.0)
SingleKinds == DOMAIN weights \cup {"cors"}

\* the dicts with exactly one key, over every score the scorer can return
SingleSessions == {<<Item(c, v)>> : c \in SingleKinds, v \in 0..FullScore}

Sessions == {s \in SessionsUpTo(MaxContrib) : DistinctKeys(s)} \cup SingleSessions

DetailsOf(s) ==
    [i \in 1..Len(s) |-> [check |-> s[i].check, score |-> s[i].score,
                          reason |-> Reason(s[i].check)]]

Present(items) == [present |-> TRUE, items |-> items]

InitAggregator ==
    /\ pc = "overall_call"
    /\ url \in Urls
    /\ \E s \in Sessions :
          /\ THREAT_SCORES = [u \in Urls |->
                IF u = "http://a.test" THEN Present(s) ELSE NoSession]
          /\ THREAT_DETAILS = [u \in Urls |->
                IF u = "http://a.test" THEN Present(DetailsOf(s)) ELSE NoSession]
    /\ threat_score = NoAssessment
    /\ ScorerIdle
    /\ CategoryIdle
    /\ ScanIdle

\* an aggregator that consumes the session it has read
Aggregate_ConsumesSession ==
    /\ pc = "overall_call"
    /\ LET ret == calculate_overall_threat_score(url, THREAT_SCORES, THREAT_DETAILS)
       IN  threat_score' = [raised |-> FALSE, score |-> ret.score,
                            category |-> get_threat_category(ret.score)[1],
                            details |-> ret.details]
    /\ THREAT_SCORES' = [THREAT_SCORES EXCEPT ![url] = NoSession]
    /\ THREAT_DETAILS' = [THREAT_DETAILS EXCEPT ![url] = NoSession]
    /\ pc' = "overall_done"
    /\ UNCHANGED <<check_name, data, score, cat_score, category, url, scan>>

\* score, details = calculate_overall_threat_score(url);
\* results["threat_score"] = {"score", "category", "details"}
Aggregate ==
    /\ pc = "overall_call"
    /\ LET ret == calculate_overall_threat_score(url, THREAT_SCORES, THREAT_DETAILS)
       IN  threat_score' =
              IF ret.raised THEN [raised |-> TRUE, score |-> 0, category |-> "",
                                  details |-> <<>>]
              ELSE [raised |-> FALSE, score |-> ret.score,
                    category |-> get_threat_category(ret.score)[1],
                    details |-> ret.details]
    /\ pc' = "overall_done"
    /\ UNCHANGED <<check_name, data, score, cat_score, category, url,
                   THREAT_SCORES, THREAT_DETAILS, scan>>

NextAggregator == Aggregate

SpecAggregator == InitAggregator /\ [][NextAggregator]_vars

(***************************************************************************)
(* The orchestrator: process_batch driving process_url_with_results (with  *)
(* --export-results) or process_url (without) over the lines of a batch    *)
(* file.  Of the sixty option blocks, the six of Checks are followed; two  *)
(* of them (security, ssl) are scored, cors only opens the scoring block,  *)
(* ports and ports_all call the same function, and extract_links is the    *)
(* one that can raise (urlparse on a malformed href, ValueError).          *)
(***************************************************************************)
MaxBatch == 2       \* most lines in the batch file
MaxSelected == 2    \* most options selected individually on the command line

Sites == {"a.test", "b.test"}

\* the lines a batch file is made of
BatchUrls == {"http://a.test", "a.test", "http://b.test"}

\* url.startswith(('http://', 'https://'))
HasScheme(u) == u \in {"http://a.test", "http://b.test"}

normalize_url(u) == IF HasScheme(u) THEN u ELSE "http://" \o u

\* urlparse(url).netloc of a normalized url
Domain(u) == IF u = "http://a.test" THEN "a.test" ELSE "b.test"

\* check_url: the response, or None when the request fails
check_url(u) == Domain(u) \in network.up

\* the function an option's block calls
FunctionOf(option) ==
    CASE option = "security" -> "check_https_security"
      [] option = "links" -> "extract_links"
      [] option = "cors" -> "check_cors_policy"
      [] option = "ports" -> "check_open_ports"
      [] option = "ports_all" -> "check_open_ports"
      [] option = "ssl" -> "check_ssl_info"

\* the headers are there or not; an http:// url is never is_https
check_https_security ==
    Returned(Dict([key \in SecurityFields |->
        IF key = "is_https" THEN PyBool(FALSE) ELSE PyBool(network.hardened)]))

\* urllib.parse.urlparse(href) raises ValueError on an href such as http://[::1
extract_links ==
    IF network.bad_href THEN Raised
    ELSE Returned(Dict([key \in {"total", "internal", "external"} |->
             IF key = "total" THEN PyInt(1) ELSE PyList(0)]))

check_cors_policy ==
    Returned(Dict([key \in {"has_cors_headers", "allows_any_origin",
                            "allows_credentials"} |-> PyBool(FALSE)]))

\* 8 common ports, or the 29 of the extended scan
check_open_ports(common_only) ==
    Returned(Dict([key \in {"open_ports", "scanned_ports", "errors"} |->
        CASE key = "open_ports" -> PyList(1)
          [] key = "scanned_ports" -> PyList(IF common_only THEN 8 ELSE 29)
          [] OTHER -> PyList(0)]))

\* the probe of port 443: on a socket or TLS error every exception is caught
\* and the dict comes back with has_ssl False and "error" set
check_ssl_info ==
    Returned(Dict([key \in {"has_ssl", "error"} |->
        IF key = "has_ssl" THEN PyBool(network.cert)
        ELSE IF network.cert THEN PyNone ELSE PyStr(1)]))

\* what the block of an option computes: [raised, val] with val the result dict
RunOption(option) ==
    CASE option = "security" -> check_https_security
      [] option = "links" -> extract_links
      [] option = "cors" -> check_cors_policy
      [] option = "ports" -> check_open_ports(TRUE)
      [] option = "ports_all" -> check_open_ports(FALSE)
      [] option = "ssl" -> check_ssl_info

\* the run goes through process_url_with_results: under --export-results, and for
\* a single URL under --webhook as well (main); otherwise through process_url
Collects == args.export_results \/ (args.mode = "url" /\ args.webhook)

\* the options the scan runs: process_url_with_results tests `args.X or args.all`,
\* process_url tests args.X, or under --all hands over to run_all_checks, which
\* scans the common ports only
Selected(option) ==
    IF Collects THEN option \in args.flags \/ args.all
    ELSE IF args.all THEN option # "ports_all"
    ELSE option \in args.flags

\* the options of Checks named in the any([...]) that opens the scoring block
ScoringTriggers == {"security", "ssl", "cors"}

\* the options of Checks the scoring block has an `if args.X and key in results` for,
\* in the order of those ifs
ScoringOrder == <<"security", "ssl">>

\* an update that adds the new score to the one already under the key, capped
SetItem_Accumulate(items, check, item) ==
    IF \E n \in 1..Len(items) : items[n].check = check
    THEN [n \in 1..Len(items) |->
             IF items[n].check = check
             THEN [item EXCEPT !.score = Min(@ + items[n].score, FullScore)]
             ELSE items[n]]
    ELSE Append(items, item)

\* d[check] = item on an insertion-ordered dict
SetItem(items, check, item) ==
    IF \E n \in 1..Len(items) : items[n].check = check
    THEN [n \in 1..Len(items) |-> IF items[n].check = check THEN item ELSE items[n]]
    ELSE Append(items, item)

\* a details entry that keeps the reason and drops the score
Detail_NoScore(check, n) == [check |-> check, score |-> 0, reason |-> Reason(check)]

\* {"score": score, "reason": "..."}
Detail(check, n) == [check |-> check, score |-> n, reason |-> Reason(check)]

\* the ifs of the scoring block from the n-th on; THREAT_SCORES[url][check] = score
\* raises KeyError when url is not a key of THREAT_SCORES
RECURSIVE ScoreWrites(_, _, _)
ScoreWrites(n, SCORES, DETAILS) ==
    IF n > Len(ScoringOrder)
    THEN [raised |-> FALSE, SCORES |-> SCORES, DETAILS |-> DETAILS]
    ELSE LET check == ScoringOrder[n]
             payload == results[ResultKey(check)]
             ret == calculate_threat_score(check, payload)
         IN  IF ~(check \in args.flags /\ payload # NoResult)
             THEN ScoreWrites(n + 1, SCORES, DETAILS)
             ELSE IF ret.raised \/ ~SCORES[url].present
             THEN [raised |-> TRUE, SCORES |-> SCORES, DETAILS |-> DETAILS]
             ELSE ScoreWrites(n + 1,
                      [SCORES EXCEPT ![url].items = SetItem(@, check, Item(check, ret.val))],
                      [DETAILS EXCEPT ![url].items =
                          SetItem(@, check, Detail(check, ret.val))])

\* what one call of process_url_with_results / process_url leaves behind: the dict
\* returned ({"error": ...} after a failed fetch) and the assessment shown
Outcome(error) ==
    [error |-> error,
     results |-> IF error THEN NoResults ELSE results,
     threat_score |-> threat_score]

NoEntry == [error |-> FALSE, results |-> NoResults, threat_score |-> NoAssessment,
            present |-> FALSE]

Entry(o) == [error |-> o.error, results |-> o.results, threat_score |-> o.threat_score,
             present |-> TRUE]

RECURSIVE BatchesUpTo(_)
BatchesUpTo(n) ==
    IF n = 0 THEN {<<>>}
    ELSE LET shorter == BatchesUpTo(n - 1)
         IN  shorter \cup {Append(b, u) : b \in {c \in shorter : Len(c) = n - 1},
                                          u \in BatchUrls}

\* process_batch returns at once on an empty file
Batches == BatchesUpTo(MaxBatch) \ {<<>>}

\* the command lines of a batch run without a webhook
ArgSets == {[flags |-> f, all |-> a, export_results |-> e, webhook |-> FALSE,
             mode |-> "batch"] :
               f \in {g \in SUBSET CheckSet : Cardinality(g) <= MaxSelected},
               a \in BOOLEAN, e \in BOOLEAN}

\* main: args.batch, else args.interactive, else args.url
Modes == {"batch", "interactive", "url"}

\* the command lines of any mode, with or without --webhook
DeliveryArgSets == {[a EXCEPT !.webhook = w, !.mode = m] :
                       a \in ArgSets, w \in BOOLEAN, m \in Modes}

Networks == {[up |-> u, hardened |-> h, cert |-> c, bad_href |-> b] :
                u \in SUBSET Sites, h \in BOOLEAN, c \in BOOLEAN, b \in BOOLEAN}

\* the network as far as the run looks at it: the sites of the batch, and the
\* aspects of the page a check that can run reads (the others stay FALSE)
Observable(n) ==
    LET runs(option) == option \in args.flags \/ args.all
    IN  /\ n.up \subseteq {Domain(normalize_url(urls[m])) : m \in 1..Len(urls)}
        /\ n.hardened => runs("security")
        /\ n.cert => runs("ssl")
        /\ n.bad_href => runs("links")

\* the start of a run on the command line args; -u gives a single URL
RunStart ==
    /\ pc = "batch_loop"
    /\ urls \in {b \in Batches : args.mode = "url" => Len(b) = 1}
    /\ network \in {n \in Networks : Observable(n)}
    /\ batch_i = 1
    /\ block = 0
    /\ results = NoResults
    /\ calls = <<>>
    /\ url_results = <<>>
    /\ all_results = [u \in BatchUrls |-> NoEntry]
    /\ sent = <<>>
    /\ page = NoPage
    /\ ScorerIdle
    /\ CategoryIdle
    /\ AggregatorIdle

Init ==
    /\ args \in ArgSets
    /\ RunStart

InitDelivery ==
    /\ args \in DeliveryArgSets
    /\ RunStart

\* the loop takes the next line and calls the orchestrator, whose first statements
\* are THREAT_SCORES[url] = {}; THREAT_DETAILS[url] = {}; url = normalize_url(url)
StartScan ==
    /\ pc = "batch_loop"
    /\ batch_i <= Len(urls)
    /\ THREAT_SCORES' = [THREAT_SCORES EXCEPT ![urls[batch_i]] = Present(<<>>)]
    /\ THREAT_DETAILS' = [THREAT_DETAILS EXCEPT ![urls[batch_i]] = Present(<<>>)]
    /\ url' = normalize_url(urls[batch_i])
    /\ results' = NoResults
    /\ calls' = <<>>
    /\ threat_score' = NoAssessment
    /\ block' = 0
    /\ pc' = "Fetching"
    /\ UNCHANGED <<check_name, data, score, cat_score, category, args, network, urls,
                   batch_i, url_results, all_results, sent, page>>

\* a scan that goes on whatever check_url returned
Fetch_IgnoresFailure ==
    /\ pc = "Fetching"
    /\ pc' = "Fetched"
    /\ UNCHANGED <<check_name, data, score, cat_score, category, url, THREAT_SCORES,
                   THREAT_DETAILS, threat_score, scan>>

\* response = check_url(url)
Fetch ==
    /\ pc = "Fetching"
    /\ pc' = IF check_url(url) THEN "Fetched" ELSE "FetchFailed"
    /\ UNCHANGED <<check_name, data, score, cat_score, category, url, THREAT_SCORES,
                   THREAT_DETAILS, threat_score, scan>>

\* if not response: return {"error": "Failed to connect to URL"}  (process_url: return)
ReturnError ==
    /\ pc = "FetchFailed"
    /\ url_results' = Append(url_results, Outcome(TRUE))
    /\ all_results' = IF Collects
                      THEN [all_results EXCEPT ![urls[batch_i]] = Entry(Outcome(TRUE))]
                      ELSE all_results
    /\ batch_i' = batch_i + 1
    /\ pc' = "batch_loop"
    /\ UNCHANGED <<check_name, data, score, cat_score, category, url, THREAT_SCORES,
                   THREAT_DETAILS, threat_score, args, network, urls, block, results,
                   calls, sent, page>>

\* soup = BeautifulSoup(response.text, 'html.parser'); domain = urlparse(url).netloc
Parse ==
    /\ pc = "Fetched"
    /\ block' = 1
    /\ pc' = "RunningChecks"
    /\ UNCHANGED <<check_name, data, score, cat_score, category, url, THREAT_SCORES,
                   THREAT_DETAILS, threat_score, args, network, urls, batch_i, results,
                   calls, url_results, all_results, sent, page>>

\* where the scan goes after the last option block: process_url_with_results to
\* the scoring block, process_url --all to the overall score, process_url to its end
AfterChecks ==
    IF Collects THEN "Scoring"
    ELSE IF args.all THEN "Aggregating"
    ELSE "Done"

\* one `if args.X or args.all:` block; process_url and run_all_checks print the
\* result without keeping it.  Nothing catches what the check raises before
\* the `except Exception` that wraps the whole of process_batch, loop included
RunBlock ==
    /\ pc = "RunningChecks"
    /\ block <= Len(Checks)
    /\ LET option == Checks[block]
           ret == RunOption(option)
       IN  IF ~Selected(option)
           THEN /\ pc' = IF block = Len(Checks) THEN AfterChecks ELSE pc
                /\ UNCHANGED <<results, calls>>
           ELSE /\ calls' = Append(calls, FunctionOf(option))
                /\ IF ret.raised
                   THEN /\ pc' = "batch_aborted"
                        /\ UNCHANGED results
                   ELSE /\ results' = IF Collects
                                       THEN [results EXCEPT ![ResultKey(option)] = ret.val]
                                       ELSE results
                        /\ pc' = IF block = Len(Checks) THEN AfterChecks ELSE pc
    /\ block' = block + 1
    /\ UNCHANGED <<check_name, data, score, cat_score, category, url, THREAT_SCORES,
                   THREAT_DETAILS, threat_score, args, network, urls, batch_i,
                   url_results, all_results, sent, page>>

\* if args.all or any([args.security, args.ssl, ..., args.cors, ...]): the writes of
\* the scores; otherwise straight to `return results`
ScoreContributions ==
    /\ pc = "Scoring"
    /\ IF ~(args.all \/ args.flags \cap ScoringTriggers # {})
       THEN /\ pc' = "Done"
            /\ UNCHANGED <<THREAT_SCORES, THREAT_DETAILS>>
       ELSE LET w == ScoreWrites(1, THREAT_SCORES, THREAT_DETAILS)
            IN  /\ THREAT_SCORES' = w.SCORES
                /\ THREAT_DETAILS' = w.DETAILS
                /\ pc' = IF w.raised THEN "batch_aborted" ELSE "Aggregating"
    /\ UNCHANGED <<check_name, data, score, cat_score, category, url, threat_score,
                   scan>>

\* score, details = calculate_overall_threat_score(url); results["threat_score"] =
\* {...} (process_url_with_results only); print_threat_score(domain, score, details)
Assess ==
    /\ pc = "Aggregating"
    /\ LET ret == calculate_overall_threat_score(url, THREAT_SCORES, THREAT_DETAILS)
       IN  threat_score' = [raised |-> FALSE, score |-> ret.score,
                            category |-> get_threat_category(ret.score)[1],
                            details |-> ret.details]
    /\ pc' = "Done"
    /\ UNCHANGED <<check_name, data, score, cat_score, category, url, THREAT_SCORES,
                   THREAT_DETAILS, scan>>

\* return results; all_results[url] = url_results under --export-results
Return ==
    /\ pc = "Done"
    /\ url_results' = Append(url_results, Outcome(FALSE))
    /\ all_results' = IF Collects
                      THEN [all_results EXCEPT ![urls[batch_i]] = Entry(Outcome(FALSE))]
                      ELSE all_results
    /\ batch_i' = batch_i + 1
    /\ pc' = "batch_loop"
    /\ UNCHANGED <<check_name, data, score, cat_score, category, url, THREAT_SCORES,
                   THREAT_DETAILS, threat_score, args, network, urls, block, results,
                   calls, sent, page>>

\* whether the run reaches send_to_webhook(all_results, args.webhook): main after
\* its `if args.export_results or args.webhook:`, process_batch and
\* process_input_urls after `if (args.export_results or args.webhook) and all_results:`
SendsToWebhook ==
    IF args.mode = "url"
    THEN (args.export_results \/ args.webhook) /\ args.webhook
    ELSE /\ args.export_results \/ args.webhook
         /\ \E u \in BatchUrls : all_results[u].present
         /\ args.webhook

\* the loop is over: export_results(all_results, ...) and send_to_webhook(all_results,
\* ...) when there is something to hand over
Export ==
    /\ pc = "batch_loop"
    /\ batch_i > Len(urls)
    /\ sent' = IF SendsToWebhook THEN Append(sent, all_results) ELSE sent
    /\ pc' = "batch_done"
    /\ UNCHANGED <<check_name, data, score, cat_score, category, url, THREAT_SCORES,
                   THREAT_DETAILS, threat_score, args, network, urls, batch_i, block,
                   results, calls, url_results, all_results, page>>

Next ==
    \/ StartScan
    \/ Fetch
    \/ ReturnError
    \/ Parse
    \/ RunBlock
    \/ ScoreContributions
    \/ Assess
    \/ Return
    \/ Export

Spec == Init /\ [][Next]_vars

\* the same run started in any of the three modes, with or without a webhook
SpecDelivery == InitDelivery /\ [][Next]_vars

(***************************************************************************)
(* SpecRecorded: the contribution process_url_with_results records for one *)
(* of the checks whose result is a list or a count of findings, or for the *)
(* CSP check: the check runs on the page served, its result is stored, and *)
(* the scoring block hands that result to calculate_threat_score.          *)
(***************************************************************************)
MaxFindings == 8    \* most findings of one kind on the page

ImportantHeaders == 10

CountKinds == {"vulns", "passwords", "leaks", "sec_headers", "iframe_security"}

RecordedKinds == CountKinds \cup {"csp"}

\* n entries in potential_vulns; the five checks are always listed as performed
check_for_vulns(n) ==
    Dict([key \in {"potential_vulns", "checks_performed", "disclaimer"} |->
        CASE key = "potential_vulns" -> PyList(n)
          [] key = "checks_performed" -> PyList(5)
          [] OTHER -> PyStr(1)])

\* n forms with a password field, none of them POSTed over https
check_password_forms(n) ==
    Dict([key \in {"total_password_forms", "forms", "secure_forms", "insecure_forms"} |->
        CASE key = "total_password_forms" -> PyInt(n)
          [] key = "forms" -> PyList(n)
          [] key = "secure_forms" -> PyInt(0)
          [] OTHER -> PyInt(n)])

\* n HTML comments left in the page, no Server header
check_for_leaks(n) ==
    Dict([key \in {"html_comments", "server_info", "email_addresses", "ip_addresses",
                   "potential_credentials"} |->
        CASE key = "html_comments" -> PyList(n)
          [] key = "server_info" -> PyNone
          [] key = "potential_credentials" -> PyBool(FALSE)
          [] OTHER -> PyList(0)])

\* n of the important headers are missing; "present" holds the others (a sized
\* container of ImportantHeaders - n entries)
check_security_headers(n) ==
    Dict([key \in {"missing", "present", "score", "max_score"} |->
        CASE key = "missing" -> PyList(n)
          [] key = "present" -> PyList(ImportantHeaders - n)
          [] key = "score" -> PyInt(ImportantHeaders - n)
          [] OTHER -> PyInt(ImportantHeaders)])

\* n iframes, none with a sandbox attribute
check_iframe_security(n) ==
    Dict([key \in {"total_iframes", "iframes", "sandboxed_iframes", "insecure_iframes"} |->
        CASE key = "total_iframes" -> PyInt(n)
          [] key = "sandboxed_iframes" -> PyInt(0)
          [] OTHER -> PyList(n)])

\* the Content-Security-Policy header p.has_policy and what it contains
check_csp_policy(p) ==
    Dict([key \in {"has_csp", "policy", "unsafe_inline", "unsafe_eval", "report_only"} |->
        CASE key = "has_csp" -> PyBool(p.has_policy)
          [] key = "policy" -> IF p.has_policy \/ p.report_only THEN PyStr(1) ELSE PyNone
          [] key = "unsafe_inline" -> PyBool(p.has_policy /\ p.unsafe_inline)
          [] key = "unsafe_eval" -> PyBool(p.has_policy /\ p.unsafe_eval)
          [] OTHER -> PyBool(p.report_only)])

\* what the block of a recorded kind stores in results
RunRecorded(check, p) ==
    CASE check = "vulns" -> check_for_vulns(p.findings)
      [] check = "passwords" -> check_password_forms(p.findings)
      [] check = "leaks" -> check_for_leaks(p.findings)
      [] check = "sec_headers" -> check_security_headers(p.findings)
      [] check = "iframe_security" -> check_iframe_security(p.findings)
      [] check = "csp" -> check_csp_policy(p)

\* the pages a check of the kind tells apart
Pages(check) ==
    IF check = "csp"
    THEN {p \in [findings : {0}, has_policy : BOOLEAN, unsafe_inline : BOOLEAN,
                 unsafe_eval : BOOLEAN, report_only : BOOLEAN] :
             (p.unsafe_inline \/ p.unsafe_eval) => p.has_policy}
    ELSE {[NoPage EXCEPT !.findings = n] :
             n \in 0..(IF check = "sec_headers" THEN Min(MaxFindings, ImportantHeaders)
                       ELSE MaxFindings)}

InitRecorded ==
    /\ pc = "check_call"
    /\ check_name \in RecordedKinds
    /\ page \in Pages(check_name)
    /\ args = [NoArgs EXCEPT !.flags = {check_name}, !.export_results = TRUE]
    /\ data = NoResult
    /\ score = NoOutcome
    /\ url = "http://a.test"
    /\ THREAT_SCORES = [u \in Urls |-> IF u = url THEN Present(<<>>) ELSE NoSession]
    /\ THREAT_DETAILS = [u \in Urls |-> IF u = url THEN Present(<<>>) ELSE NoSession]
    /\ threat_score = NoAssessment
    /\ CategoryIdle
    /\ network = NoNetwork
    /\ urls = <<url>>
    /\ batch_i = 1
    /\ block = 0
    /\ results = NoResults
    /\ calls = <<>>
    /\ url_results = <<>>
    /\ all_results = <<>>
    /\ sent = <<>>

\* if args.X or args.all: results[key] = check(...)
RunCheck ==
    /\ pc = "check_call"
    /\ data' = RunRecorded(check_name, page)
    /\ pc' = "check_done"
    /\ UNCHANGED <<check_name, score, cat_score, category, url, THREAT_SCORES,
                   THREAT_DETAILS, threat_score, scan>>

\* if args.X and key in results: score = calculate_threat_score(X, results[key]);
\* THREAT_SCORES[url][X] = score; THREAT_DETAILS[url][X] = {...}
RecordScore ==
    /\ pc = "check_done"
    /\ LET ret == calculate_threat_score(check_name, data)
       IN  IF ~(check_name \in args.flags /\ data # NoResult)
           THEN /\ pc' = "recorded"
                /\ UNCHANGED <<score, THREAT_SCORES, THREAT_DETAILS>>
           ELSE /\ score' = ret
                /\ IF ret.raised
                   THEN /\ pc' = "batch_aborted"
                        /\ UNCHANGED <<THREAT_SCORES, THREAT_DETAILS>>
                   ELSE /\ pc' = "recorded"
                        /\ THREAT_SCORES' = [THREAT_SCORES EXCEPT ![url].items =
                               SetItem(@, check_name, Item(check_name, ret.val))]
                        /\ THREAT_DETAILS' = [THREAT_DETAILS EXCEPT ![url].items =
                               SetItem(@, check_name, Detail(check_name, ret.val))]
    /\ UNCHANGED <<check_name, data, cat_score, category, url, threat_score, scan>>

NextRecorded ==
    \/ RunCheck
    \/ RecordScore

SpecRecorded == InitRecorded /\ [][NextRecorded]_vars

(***************************************************************************)
(* Properties of the scorer (SpecScorer).                                  *)
(***************************************************************************)

\* C1: whatever the kind and the payload, a score that calculate_threat_score
\* returns lies in 0..100.
C1_ScoreWithinRange ==
    (pc = "score_done" /\ ~score.raised) => score.val \in 0..100

\* C2: a kind without a branch in the scorer scores 0 on every payload.
C2_UnknownKindScoresZero ==
    (pc = "score_done" /\ check_name \notin ScoredKinds) => score = Returned(0)

C2_Witness ==
    /\ pc = "score_done"
    /\ check_name = "cors"
    /\ data.isdict
    /\ "missing_headers" \in DOMAIN data.f
    /\ data.f["missing_headers"] = PyList(3)
    /\ score = Returned(0)

\* C3: the scorer never raises: every call returns a score, also on a payload
\* with a missing or malformed field.
C3_ScorerNeverRaises ==
    pc = "score_done" => ~score.raised

\* C4: for kind security with six boolean flags the score is 30 for no HTTPS
\* plus 10, 10, 5, 5, 5 for each missing HSTS, CSP, X-Content-Type-Options,
\* X-Frame-Options, X-XSS-Protection; six false flags score 65.
C4_FlagMissing(key) == data.f[key] = PyBool(FALSE)

C4_SecurityScoreIsSum ==
    (/\ pc = "score_done"
     /\ check_name = "security"
     /\ data.isdict
     /\ \A k \in SecurityFields : data.f[k].t = "bool")
    => /\ score = Returned(Pts(C4_FlagMissing("is_https"), 30)
                           + Pts(C4_FlagMissing("hsts"), 10)
                           + Pts(C4_FlagMissing("content_security_policy"), 10)
                           + Pts(C4_FlagMissing("x_content_type_options"), 5)
                           + Pts(C4_FlagMissing("x_frame_options"), 5)
                           + Pts(C4_FlagMissing("x_xss_protection"), 5))
       /\ (\A k \in SecurityFields : C4_FlagMissing(k)) => score = Returned(65)

C4_Witness ==
    /\ pc = "score_done"
    /\ check_name = "security"
    /\ data.isdict
    /\ \A k \in SecurityFields : data.f[k] = PyBool(FALSE)
    /\ score = Returned(65)

\* C5: for kind cookie_sec with counts a, b, c >= 0 the score is
\* min(100, 10a + 8b + 5c); a = 2, b = 1, c = 0 scores 28.
C5_CookieScoreFormula ==
    (/\ pc = "score_done"
     /\ check_name = "cookie_sec"
     /\ data.isdict
     /\ \A k \in CookieFields : data.f[k].t = "int" /\ data.f[k].v >= 0)
    => score = Returned(Min(100, 10 * data.f["cookies_without_secure"].v
                                 + 8 * data.f["cookies_without_httponly"].v
                                 + 5 * data.f["cookies_without_samesite"].v))

C5_Witness ==
    /\ pc = "score_done"
    /\ check_name = "cookie_sec"
    /\ data.isdict
    /\ data.f["cookies_without_secure"] = PyInt(2)
    /\ data.f["cookies_without_httponly"] = PyInt(1)
    /\ data.f["cookies_without_samesite"] = PyInt(0)
    /\ score = Returned(28)

(***************************************************************************)
(* Properties of the aggregator (SpecAggregator).                          *)
(***************************************************************************)
\* the session the aggregation ran on
SessionRead == THREAT_SCORES[url].items

NonEmptySession == THREAT_SCORES[url].present /\ SessionRead # <<>>

\* the weighted mean as the exact fraction num / den, weights in tenths
TenthsOf(check) == IF check \in DOMAIN weights THEN weights[check] ELSE 10

RECURSIVE MeanNum(_)
MeanNum(s) ==
    IF s = <<>> THEN 0 ELSE s[1].score * TenthsOf(s[1].check) + MeanNum(Tail(s))

RECURSIVE MeanDen(_)
MeanDen(s) ==
    IF s = <<>> THEN 0 ELSE TenthsOf(s[1].check) + MeanDen(Tail(s))

\* num / den rounded to the nearest integer, a half going to the even
\* neighbour (Python's round) or up
RoundHalfEven(num, den) ==
    LET k == num \div den
        r == num % den
    IN  IF 2 * r < den THEN k
        ELSE IF 2 * r > den THEN k + 1
        ELSE IF k % 2 = 0 THEN k ELSE k + 1

RoundHalfUp(num, den) == (2 * num + den) \div (2 * den)

\* C6: for a non-empty session the overall score is the weighted mean
\* sum(score * weight) / sum(weight), rounded and capped at 100; security = 50
\* with ssl = 90 gives 72, category High.
C6_OverallIsRoundedMean ==
    (pc = "overall_done" /\ NonEmptySession)
    => LET num == MeanNum(SessionRead)
           den == MeanDen(SessionRead)
       IN  /\ threat_score.score \in {Min(RoundHalfEven(num, den), 100),
                                      Min(RoundHalfUp(num, den), 100)}
           /\ SessionRead = <<Item("security", 50), Item("ssl", 90)>>
                 => threat_score.score = 72 /\ threat_score.category = "High Risk"

\* C7: for every non-empty session the overall score is an integer in 0..100.
C7_OverallWithinRange ==
    (pc = "overall_done" /\ NonEmptySession)
    => ~threat_score.raised /\ threat_score.score \in 0..100

C7_Witness ==
    /\ pc = "overall_done"
    /\ NonEmptySession
    /\ Len(SessionRead) = 3
    /\ \A i \in 1..3 : SessionRead[i].score = 100
    /\ threat_score.score = 100

\* C8: a URL without a session, or with an empty one, gets overall score 0,
\* no contributions and category Low, as a normal return.
C8_EmptySessionIsLowZero ==
    (pc = "overall_done" /\ ~NonEmptySession)
    => threat_score = [raised |-> FALSE, score |-> 0, category |-> "Low Risk",
                       details |-> <<>>]

C8_Witness ==
    /\ pc = "overall_done"
    /\ ~THREAT_SCORES[url].present
    /\ \E u \in Urls : THREAT_SCORES[u].present /\ THREAT_SCORES[u].items # <<>>
    /\ threat_score.score = 0
    /\ threat_score.category = "Low Risk"
    /\ threat_score.details = <<>>

\* the sequences holding the items of s in another order
Reorderings(s) ==
    {[i \in 1..Len(s) |-> s[f[i]]] :
        f \in {g \in [1..Len(s) -> 1..Len(s)] :
                  \A i, j \in 1..Len(s) : g[i] = g[j] => i = j}}

\* C9: the overall score is the same for every insertion order of the same
\* contributions.
C9_OrderIndependent ==
    (pc = "overall_done" /\ NonEmptySession)
    => \A p \in Reorderings(SessionRead) :
          calculate_overall_threat_score(url,
              [THREAT_SCORES EXCEPT ![url] = Present(p)],
              [THREAT_DETAILS EXCEPT ![url] = Present(DetailsOf(p))]).score
          = threat_score.score

\* C11: a session that holds exactly one contribution, of score s, yields the
\* overall score s whatever the weight of its kind, with the category of s; a lone
\* ssl contribution of 90 gives 90, Critical Risk.
C11_SingleContributionIsItsScore ==
    (pc = "overall_done" /\ THREAT_SCORES[url].present /\ Len(SessionRead) = 1) =>
        /\ ~threat_score.raised
        /\ threat_score.score = SessionRead[1].score
        /\ threat_score.category = get_threat_category(SessionRead[1].score)[1]
        /\ SessionRead = <<Item("ssl", 90)>> =>
              threat_score.category = "Critical Risk"

C11_Witness ==
    /\ pc = "overall_done"
    /\ THREAT_SCORES[url].present
    /\ SessionRead = <<Item("ssl", 90)>>
    /\ threat_score.score = 90
    /\ threat_score.category = "Critical Risk"

\* C24: every weight the aggregator uses is strictly positive, a kind the table
\* does not list weighs 1.0, and so the total weight of a non-empty session is
\* above 0: the `total_weight == 0` guard is never taken.
C24_TotalWeightPositive ==
    /\ \A check \in DOMAIN weights : weights[check] > 0
    /\ NonEmptySession =>
          /\ \A n \in 1..Len(SessionRead) :
                 /\ WeightOf(SessionRead[n].check) # Zero
                 /\ SessionRead[n].check \notin DOMAIN weights =>
                        WeightOf(SessionRead[n].check) = DoubleOfTenths(10)
          /\ WeightedSums(SessionRead, 1, Zero, Zero).total_weight # Zero

C24_Witness ==
    /\ pc = "overall_done"
    /\ THREAT_SCORES[url].present
    /\ SessionRead = <<Item("cors", 50)>>
    /\ threat_score.score = 50

\* C25: the aggregator reads the session without changing it: the call leaves the
\* scores and details recorded for every URL as they were, and the contributions it
\* returns are those of the session of its URL.
C25_AggregatorLeavesSessions ==
    [][pc = "overall_call" =>
          /\ THREAT_SCORES' = THREAT_SCORES
          /\ THREAT_DETAILS' = THREAT_DETAILS
          /\ ~threat_score'.raised
          /\ threat_score'.details = THREAT_DETAILS[url].items]_vars

C25_Witness ==
    /\ pc = "overall_done"
    /\ SessionRead = <<Item("security", 60), Item("leaks", 90)>>
    /\ threat_score.details = DetailsOf(SessionRead)
    /\ THREAT_DETAILS[url].items = DetailsOf(SessionRead)

\* C28: for a non-empty session of integer contributions in 0..100 the overall
\* score lies between the smallest and the largest contribution and is within one
\* half of the exact weighted mean.
C28_OverallBetweenMinAndMax ==
    (pc = "overall_done" /\ NonEmptySession) =>
        LET num == MeanNum(SessionRead)
            den == MeanDen(SessionRead)
            overall == threat_score.score
        IN  /\ \E n \in 1..Len(SessionRead) : SessionRead[n].score <= overall
            /\ \E n \in 1..Len(SessionRead) : overall <= SessionRead[n].score
            /\ 2 * (overall * den - num) <= den
            /\ 2 * (num - overall * den) <= den

C28_Witness ==
    /\ pc = "overall_done"
    /\ THREAT_SCORES[url].present
    /\ SessionRead = <<Item("passwords", 0), Item("leaks", 60)>>
    /\ threat_score.score = 27

(***************************************************************************)
(* Properties of the category mapping (SpecCategory).                      *)
(***************************************************************************)
C10_Labels == <<"Low Risk", "Moderate Risk", "Medium Risk", "High Risk", "Critical Risk">>

\* C10: every score 0..100 gets the one category of its interval:
\* 0-19 Low, 20-39 Moderate, 40-59 Medium, 60-79 High, 80-100 Critical.
C10_CategoryPartition ==
    (pc = "category_done" /\ cat_score \in 0..100)
    => category[1] = C10_Labels[Min(cat_score \div 20, 4) + 1]

C10_Witness ==
    /\ pc = "category_done"
    /\ cat_score = 80
    /\ category[1] = "Critical Risk"

(***************************************************************************)
(* Properties of the orchestrator (Spec).                                  *)
(***************************************************************************)
\* C12: two runs of process_url_with_results in one process on the same URL
\* (given with or without its http:// prefix), with the same options and the same
\* check results, return the same results and the same assessment: overall score,
\* category and contributions.
C12_RepeatedScanSameAssessment ==
    args.export_results =>
        \A j, m \in 1..Len(url_results) :
            normalize_url(urls[j]) = normalize_url(urls[m]) =>
                url_results[j] = url_results[m]

C12_Witness ==
    /\ args.export_results
    /\ urls = <<"http://a.test", "http://a.test">>
    /\ Len(url_results) = 2
    /\ url_results[1].threat_score.score = 65
    /\ url_results[2].threat_score.score = 65
    /\ Len(url_results[2].threat_score.details) = 1

\* the kinds with a contribution in the session the scan scores into
Contributed == {THREAT_SCORES[url].items[n].check :
                   n \in 1..Len(THREAT_SCORES[url].items)}

\* the scored kinds whose check ran in this scan and left its result
RanScored == {ScoringOrder[n] : n \in {m \in 1..Len(ScoringOrder) :
                                       results[ResultKey(ScoringOrder[m])] # NoResult}}

\* C13: after the scoring step of process_url_with_results the session holds a
\* contribution for every scoring-eligible check that ran in the scan, whether it
\* ran for its own option or for --all.
C13_EveryScoredCheckContributes ==
    (args.export_results /\ pc = "Aggregating") => RanScored \subseteq Contributed

\* the result of a check that could not do its work: a dict with "error" set
Unavailable(payload) ==
    payload.isdict /\ Truthy(Get(payload, "error", PyNone))

\* C14: the session never holds a contribution for a check that did not run in the
\* scan or whose outcome was Unavailable: a failed SSL probe contributes nothing, not
\* a score of 0 that enters the weighted mean.
C14_NoContributionWithoutResult ==
    (args.export_results /\ pc \in {"Aggregating", "Done"}) =>
        \A check \in Contributed :
            /\ check \in RanScored
            /\ ~Unavailable(results[ResultKey(check)])

\* C15: when the fetch of a URL fails the scan short-circuits: the scan is over at
\* once, no check function has been invoked, no contribution is scored, no assessment
\* is produced, and what the scan returns is the fetch error (which --export-results
\* files under the URL).
C15_FetchFailureShortCircuits ==
    [][/\ (pc = "Fetching" /\ ~check_url(url)) => pc' = "FetchFailed"
       /\ pc = "FetchFailed" =>
             /\ calls = <<>> /\ calls' = <<>>
             /\ results = NoResults
             /\ THREAT_SCORES' = THREAT_SCORES
             /\ THREAT_DETAILS' = THREAT_DETAILS
             /\ THREAT_SCORES[urls[batch_i]] = Present(<<>>)
             /\ threat_score = NoAssessment /\ threat_score' = NoAssessment
             /\ pc' = "batch_loop"
             /\ url_results' = Append(url_results,
                    [error |-> TRUE, results |-> NoResults,
                     threat_score |-> NoAssessment])
             /\ args.export_results =>
                    /\ all_results'[urls[batch_i]].present
                    /\ all_results'[urls[batch_i]].error]_vars

C15_Witness ==
    /\ pc = "batch_loop"
    /\ args.export_results
    /\ args.flags = {"security", "ssl"}
    /\ Len(url_results) = 1
    /\ url_results[1].error
    /\ all_results[urls[1]].error
    /\ calls = <<>>
    /\ threat_score = NoAssessment

\* C16: once the fetch of an entry has succeeded its scan goes on, step by step,
\* through the checks and the scoring to the aggregation step and from there to
\* Done, whatever was selected and whichever check failed: no step of a fetched scan
\* leaves that path.
C16_FetchedScanPassesAggregating ==
    [][/\ pc = "Fetched" => pc' = "RunningChecks"
       /\ pc = "RunningChecks" => pc' \in {"RunningChecks", "Scoring", "Aggregating"}
       /\ pc = "Scoring" => pc' = "Aggregating"
       /\ pc = "Aggregating" => pc' = "Done"]_vars

\* C17: when a check function raises, the orchestrator contains it: the step does
\* not end the batch, the check just leaves no result, and the scan goes on with the
\* next block (from where the remaining checks, the assessment and the remaining
\* URLs follow).
C17_CheckExceptionIsContained ==
    [][(/\ pc = "RunningChecks"
        /\ block <= Len(Checks)
        /\ Selected(Checks[block])
        /\ RunOption(Checks[block]).raised)
       => /\ pc' \in {"RunningChecks", "Scoring", "Aggregating", "Done"}
          /\ block' = block + 1
          /\ results' = results]_vars

\* C18: in a batch, the assessment of an entry is computed from the session of that
\* entry alone: what is shown for it is the aggregate of the contributions recorded
\* under its own line, not those held under another entry's key (such as the same
\* address written with its http:// prefix).
C18_AssessmentFromOwnSession ==
    (pc = "Done" /\ threat_score # NoAssessment) =>
        LET own == calculate_overall_threat_score(urls[batch_i], THREAT_SCORES,
                                                  THREAT_DETAILS)
        IN  /\ threat_score.score = own.score
            /\ threat_score.details = own.details

\* the number of calls of function f the scan has made
CallsOf(f) == Cardinality({n \in 1..Len(calls) : calls[n] = f})

\* C19: a scan with --all shows a complete assessment: every scoring-eligible check
\* that ran under --all is among the risk factors, and when such a check reports
\* findings (its result scores above 0) the overall score is above 0.
C19_AllGivesCompleteAssessment ==
    (pc = "Done" /\ args.all) =>
        \A check \in {ScoringOrder[n] : n \in 1..Len(ScoringOrder)} :
            CallsOf(FunctionOf(check)) > 0 =>
                /\ \E n \in 1..Len(threat_score.details) :
                       threat_score.details[n].check = check
                /\ calculate_threat_score(check, RunOption(check).val).val > 0
                       => threat_score.score > 0

\* the first block that calls function f
FirstBlock(f) ==
    CHOOSE n \in 1..Len(Checks) :
        /\ FunctionOf(Checks[n]) = f
        /\ \A m \in 1..(n - 1) : FunctionOf(Checks[m]) # f

\* C20: when the check blocks of a scan are through, each selected check function
\* has been executed exactly once, and the calls were made in the fixed order of the
\* blocks.
C20_EachCheckFunctionOnce ==
    (pc \in {"Scoring", "Aggregating", "Done"}) =>
        /\ \A option \in CheckSet :
               Selected(option) => CallsOf(FunctionOf(option)) = 1
        /\ \A a, b \in 1..Len(calls) :
               a < b => FirstBlock(calls[a]) < FirstBlock(calls[b])


\* the kinds a mapping holds for a URL
KindsOf(MAPPING, u) == {MAPPING[u].items[n].check : n \in 1..Len(MAPPING[u].items)}

\* C27: in every reachable state and for every URL, the recorded scores and the
\* recorded details hold the same kinds, and under each kind the score kept in the
\* details is the score kept in the scores.
C27_ScoresAndDetailsAgree ==
    \A u \in Urls :
        /\ THREAT_SCORES[u].present = THREAT_DETAILS[u].present
        /\ KindsOf(THREAT_SCORES, u) = KindsOf(THREAT_DETAILS, u)
        /\ \A n \in 1..Len(THREAT_SCORES[u].items), m \in 1..Len(THREAT_DETAILS[u].items) :
               THREAT_SCORES[u].items[n].check = THREAT_DETAILS[u].items[m].check =>
                   THREAT_SCORES[u].items[n].score = THREAT_DETAILS[u].items[m].score

\* a scan has scored security and ssl; the session of an earlier URL is still there
C27_Witness ==
    /\ pc = "Done"
    /\ batch_i = 2
    /\ url = "http://b.test"
    /\ KindsOf(THREAT_SCORES, url) = {"security", "ssl"}
    /\ THREAT_DETAILS[url].items = <<Detail("security", 65), Detail("ssl", 0)>>
    /\ THREAT_SCORES["http://a.test"].present

\* C26: while a scan of process_url_with_results is at its scoring block or at the
\* aggregator, the session it writes to and reads (the one under url) is the one
\* it initialised at its start (the one under the input string), for an input
\* with or without a scheme prefix, and that session exists.
C26_OneSessionPerScan ==
    (args.export_results /\ pc \in {"Scoring", "Aggregating"}) =>
        /\ url = urls[batch_i]
        /\ THREAT_SCORES[url].present
        /\ THREAT_DETAILS[url].present

\* C30: when a webhook is given and the run comes to its end, the collected results
\* (an entry for every URL processed) have been sent to the webhook, in batch and
\* interactive mode as for a single URL, with or without --export-results.
C30_WebhookReceivesResults ==
    (pc = "batch_done" /\ args.webhook) =>
        /\ Len(sent) = 1
        /\ \A n \in 1..Len(urls) : sent[1][urls[n]].present

\* C21: when a scan of process_url_with_results has come to its end, it has built an
\* assessment exactly when at least one check the scorer can score has run; a scan
\* that ran none has no assessment.
C21_AssessmentIffScoredCheckRan ==
    (Collects /\ pc = "Done") =>
        (threat_score # NoAssessment <=> RanScored # {})

\* C29: when a batch run with --export-results is over, every line of the file has
\* been processed, in the order of the file, and has its entry in all_results: an
\* error record when its fetch failed, a results record otherwise, whatever happened
\* to the lines before it.
C29_EveryBatchUrlGetsEntry ==
    (args.mode = "batch" /\ args.export_results /\ pc \in {"batch_done", "batch_aborted"}) =>
        /\ Len(url_results) = Len(urls)
        /\ \A n \in 1..Len(urls) :
               /\ all_results[urls[n]].present
               /\ all_results[urls[n]].error <=> ~check_url(normalize_url(urls[n]))
               /\ url_results[n].error <=> ~check_url(normalize_url(urls[n]))

(***************************************************************************)
(* Properties of the recorded contributions (SpecRecorded).                *)
(***************************************************************************)
\* the points the scoring table gives per finding of a count-based kind
UnitOf(check) ==
    CASE check = "vulns" -> 20
      [] check = "passwords" -> 30
      [] check = "leaks" -> 15
      [] check = "sec_headers" -> 5
      [] check = "iframe_security" -> 15

\* C22: for a count-based kind, the contribution recorded from the check's result
\* is min(100, unit * n) for the n findings the check reported: 20 per vulnerability
\* finding, 30 per insecure password form, 15 per leaked item, 5 per missing header,
\* 15 per insecure iframe.
C22_CountKindsRecordUnitTimesFindings ==
    (pc = "recorded" /\ check_name \in CountKinds) =>
        THREAT_SCORES[url].items =
            <<Item(check_name, Min(FullScore, UnitOf(check_name) * page.findings))>>

\* C23: the contribution recorded for csp from check_csp_policy's result is 20 when
\* the response has no CSP header, plus 10 when the policy contains 'unsafe-inline',
\* plus 10 when it contains 'unsafe-eval'; a policy with both scores 20.
C23_CspRecordsMissingAndUnsafe ==
    (pc = "recorded" /\ check_name = "csp") =>
        THREAT_SCORES[url].items =
            <<Item("csp", Pts(~page.has_policy, 20)
                          + Pts(page.has_policy /\ page.unsafe_inline, 10)
                          + Pts(page.has_policy /\ page.unsafe_eval, 10))>>
====
